---- MODULE Spec2Model ----
(***************************************************************************)
(* Value numbering pass of src/HelloWorld/HelloWorld.cpp: visitor(F) scans *)
(* every instruction of every basic block of one function once, in layout  *)
(* order, and keeps three locals: LVNTable (std::map<Expression,unsigned>),*)
(* ValueNumbers (std::map<Value*,unsigned>) and nextValueNumber.  Each     *)
(* store, load and binary operator writes one line to errs().              *)
(*                                                                         *)
(* std::map::operator[] inserts a value-initialised (0) entry for a key    *)
(* that is absent; every read through operator[] is modelled that way.     *)
(***************************************************************************)
EXTENDS Integers, Sequences, FiniteSets, TLC

(***************************************************************************)
(* Bounds of the analysed functions.                                       *)
(***************************************************************************)
MaxInstrs == 3
MaxBlocks == 3
MaxFunctions == 3

(***************************************************************************)
(* llvm::Instruction opcodes used by the pass (llvm/IR/Instruction.def).   *)
(***************************************************************************)
Add == 13
Sub == 15
Mul == 17
UDiv == 19
SDiv == 20
Shl == 25
Xor == 30

(***************************************************************************)
(* Value identities (llvm::Value pointers): a function argument, a         *)
(* ConstantInt                                                             *)
(* (uniqued by LLVM: one Value* per literal) or the result of the          *)
(* instruction at a given position of the function's layout.               *)
(***************************************************************************)
Arg(n) == [t |-> "arg", n |-> n]
ConstantInt(n) == [t |-> "const", n |-> n]
Inst(n) == [t |-> "inst", n |-> n]
NoValue == [t |-> "none", n |-> 0]

a == Arg(1)
p == Arg(2)
q == Arg(3)
c3 == ConstantInt(3)
c5 == ConstantInt(5)

IsConstant(v) == v.t = "const"

(***************************************************************************)
(* Instructions.  op0/op1 are the operands as getOperand(0)/getOperand(1)  *)
(* return them: a store's value operand and pointer operand, a load's      *)
(* pointer operand, a binary operator's two operands.                      *)
(***************************************************************************)
StoreInst(v, ptr) == [kind |-> "store", opcode |-> 0, op0 |-> v, op1 |-> ptr]
LoadInst(ptr) == [kind |-> "load", opcode |-> 0, op0 |-> ptr, op1 |-> NoValue]
BinaryOperator(opc, x, y) == [kind |-> "binop", opcode |-> opc, op0 |-> x, op1 |-> y]
Terminator == [kind |-> "other", opcode |-> 0, op0 |-> NoValue, op1 |-> NoValue]

\* getOpcodeName: the display mnemonic of an opcode.
getOpcodeName(Opcode) ==
  CASE Opcode = Add -> "add"
    [] Opcode = Sub -> "sub"
    [] Opcode = Mul -> "mul"
    [] Opcode = UDiv -> "div"
    [] Opcode = SDiv -> "div"
    [] OTHER -> "unknown"

\* A constructor without the swap.
ExpressionNoSwap(Op, L, R) == [Opcode |-> Op, LHS |-> L, RHS |-> R]

\* A constructor that orders the operands of every operator.
ExpressionSwapAll(Op, L, R) ==
  IF L > R
    THEN [Opcode |-> Op, LHS |-> R, RHS |-> L]
    ELSE [Opcode |-> Op, LHS |-> L, RHS |-> R]

\* Expression's constructor: the operand numbers of an add or a mul are
\* swapped when the left one is greater than the right one.
Expression(Op, L, R) ==
  IF (Op = Add \/ Op = Mul) /\ L > R
    THEN [Opcode |-> Op, LHS |-> R, RHS |-> L]
    ELSE [Opcode |-> Op, LHS |-> L, RHS |-> R]

\* A comparison that leaves RHS out.
ExprLessNoRHS(e, o) ==
  \/ e.Opcode < o.Opcode
  \/ e.Opcode = o.Opcode /\ e.LHS < o.LHS

\* A comparison that leaves Opcode out.
ExprLessNoOpcode(e, o) ==
  \/ e.LHS < o.LHS
  \/ e.LHS = o.LHS /\ e.RHS < o.RHS

\* Expression::operator<: std::tie compares (Opcode, LHS, RHS) lexicographically.
ExprLess(e, o) ==
  \/ e.Opcode < o.Opcode
  \/ e.Opcode = o.Opcode /\ e.LHS < o.LHS
  \/ e.Opcode = o.Opcode /\ e.LHS = o.LHS /\ e.RHS < o.RHS

\* Key equivalence of std::map<Expression, unsigned>: neither key is less.
ExprEquiv(e, o) == ~ExprLess(e, o) /\ ~ExprLess(o, e)

\* A lookup that never finds the key.
LVNCountNever(T, e) == FALSE

\* LVNTable.count(Expr)
LVNCount(T, e) == \E k \in DOMAIN T : ExprEquiv(k, e)

\* LVNTable[Expr] of a key that is present
LVNFind(T, e) == T[CHOOSE k \in DOMAIN T : ExprEquiv(k, e)]

\* LVNTable[Expr] = n: the entry of the equivalent key if there is one,
\* a new entry otherwise.
LVNAssign(T, e, n) ==
  IF \E k \in DOMAIN T : ExprEquiv(k, e)
    THEN LET k == CHOOSE x \in DOMAIN T : ExprEquiv(x, e)
         IN  [x \in DOMAIN T |-> IF x = k THEN n ELSE T[x]]
    ELSE T @@ (e :> n)

\* A read that value-initialises the entry even when the key is present.
SubscriptZero(M, k) == [x \in (DOMAIN M) \cup {k} |-> IF x = k THEN 0 ELSE M[x]]

\* std::map<Value*, unsigned>::operator[] used as a read: the map afterwards
\* (a missing key is inserted with the value 0).
Subscript(M, k) == IF k \in DOMAIN M THEN M ELSE M @@ (k :> 0)

\* An insertion that keeps the entry of a key that is present.
AssignInsertOnly(M, k, n) == IF k \in DOMAIN M THEN M ELSE M @@ (k :> n)

\* ValueNumbers[k] = n
Assign(M, k, n) == [x \in (DOMAIN M) \cup {k} |-> IF x = k THEN n ELSE M[x]]

\* A lookup that never finds the key.
CountNever(M, k) == FALSE

\* ValueNumbers.count(k)
Count(M, k) == k \in DOMAIN M

EmptyMap == [x \in {} |-> 0]

\* The instruction of a function body at position i: the shape plus its own
\* identity (the address of I, which is the Value of its result).
WithId(shape, i) ==
  [id |-> i, kind |-> shape.kind, opcode |-> shape.opcode,
   op0 |-> shape.op0, op1 |-> shape.op1]

\* A basic block: the body followed by the block's terminator.
BasicBlock(body, ids) ==
  [i \in 1..(Len(body) + 1) |->
     IF i <= Len(body) THEN WithId(body[i], ids[i]) ELSE WithId(Terminator, 0)]

\* An operand that is an instruction names another instruction of the
\* function that has a result (a load or a binary operator).  g gives the
\* basic block of each instruction.  The layout order of the blocks need not
\* follow dominance: an operand may be defined in a block laid out after the
\* block of its user, when the user is not in the entry block.  Inside one
\* block the definition comes first.
OperandOk(body, g, i, o) ==
  o.t = "inst" => /\ o.n # i
                  /\ o.n \in 1..Len(body)
                  /\ body[o.n].kind \in {"load", "binop"}
                  /\ o.n > i => (g[i] >= 2 /\ g[o.n] > g[i])

WellFormedBody(body, g) ==
  \A i \in 1..Len(body) :
    OperandOk(body, g, i, body[i].op0) /\ OperandOk(body, g, i, body[i].op1)

InstructionShapes(ops, vals, stores, ptrs) ==
  {StoreInst(st[1], st[2]) : st \in stores}
    \cup {LoadInst(ptr) : ptr \in ptrs}
    \cup {BinaryOperator(o, x, y) : o \in ops, x \in vals, y \in vals}

\* F is a function of one basic block over the given instruction shapes.
SingleBlock(fn, shapes) ==
  \E k \in 0..MaxInstrs : \E b \in [1..k -> shapes] :
    /\ WellFormedBody(b, [i \in 1..k |-> 1])
    /\ fn = <<BasicBlock(b, [i \in 1..k |-> i])>>

\* The same with at most n instructions.
SingleBlockUpTo(fn, shapes, n) ==
  \E k \in 0..n : \E b \in [1..k -> shapes] :
    /\ WellFormedBody(b, [i \in 1..k |-> 1])
    /\ fn = <<BasicBlock(b, [i \in 1..k |-> i])>>

\* The instructions of a body that the cut g puts in block j.
RECURSIVE Pick(_, _, _, _)
Pick(k, g, j, i) ==
  IF i > k THEN <<>>
  ELSE IF g[i] = j THEN <<i>> \o Pick(k, g, j, i + 1)
  ELSE Pick(k, g, j, i + 1)

Monotone(g, k) == \A i \in 1..k : \A j \in 1..k : i <= j => g[i] <= g[j]

SplitBody(b, g, nb) ==
  [j \in 1..nb |->
     LET idx == Pick(Len(b), g, j, 1)
     IN  BasicBlock([m \in 1..Len(idx) |-> b[idx[m]]], idx)]

\* F is a function of one to MaxBlocks basic blocks.
MultiBlock(fn, shapes) ==
  \E k \in 0..MaxInstrs : \E b \in [1..k -> shapes] :
    \E nb \in 1..MaxBlocks : \E g \in [1..k -> 1..nb] :
      /\ Monotone(g, k)
      /\ WellFormedBody(b, g)
      /\ fn = SplitBody(b, g, nb)

\* The analysed functions: arithmetic on an argument and a loaded value;
\* arithmetic and stores with literal constants; stores and loads through an
\* argument pointer and a loaded pointer, over several blocks; functions of
\* several blocks, and the function without blocks.
ArithShapes == InstructionShapes({Add, Mul, Sub, SDiv}, {a, Inst(1)}, {<<a, p>>}, {p})
ConstShapes ==
  InstructionShapes({Sub}, {Inst(1), c3, c5}, {c3, c5} \X {p, q}, {p, q})
MemShapes ==
  InstructionShapes({Add}, {a}, {<<a, p>>, <<c3, p>>, <<a, Inst(2)>>}, {p, Inst(2)})
BlockShapes == InstructionShapes({Add, UDiv}, {a}, {<<a, p>>}, {p})
\* The two division kinds and two kinds getOpcodeName does not know.
OpcodeShapes == InstructionShapes({UDiv, SDiv, Shl, Xor}, {a}, {<<a, p>>}, {p})

\* The functions of a module of several functions.
ModuleShapes == InstructionShapes({Add}, {a}, {<<a, p>>}, {p})

BlockFunctions(fn) == fn = <<>> \/ MultiBlock(fn, BlockShapes)

Functions(fn) ==
  \/ SingleBlock(fn, ArithShapes)
  \/ SingleBlock(fn, ConstShapes)
  \/ MultiBlock(fn, MemShapes)
  \/ BlockFunctions(fn)
  \/ SingleBlock(fn, OpcodeShapes)

VARIABLES
  F,                \* the function under analysis: its basic blocks
  bb, ii,           \* the iterators of the two loops: block and instruction
  LVNTable,         \* std::map<Expression, unsigned>
  ValueNumbers,     \* std::map<Value*, unsigned>
  nextValueNumber,
  out               \* the lines written to errs()

vars == <<F, bb, ii, LVNTable, ValueNumbers, nextValueNumber, out>>

Header == [I |-> WithId([kind |-> "header", opcode |-> 0, op0 |-> NoValue, op1 |-> NoValue], 0)]

\* visitor(F) after its locals are constructed.
Init ==
  /\ Functions(F)
  /\ bb = 1
  /\ ii = 1
  /\ LVNTable = EmptyMap
  /\ ValueNumbers = EmptyMap
  /\ nextValueNumber = 1
  /\ out = <<Header>>

\* The same, for the functions of several basic blocks only.
InitBlocks ==
  /\ BlockFunctions(F)
  /\ bb = 1
  /\ ii = 1
  /\ LVNTable = EmptyMap
  /\ ValueNumbers = EmptyMap
  /\ nextValueNumber = 1
  /\ out = <<Header>>

Scanning == bb <= Len(F)
Done == ~Scanning
Cur == F[bb][ii]

\* A scan that leaves the block after its first instruction.
NextInstructionBreak == bb' = bb + 1 /\ ii' = 1

\* for (auto &I : BB) inside for (auto &BB : F): the next instruction.
NextInstruction ==
  IF ii < Len(F[bb])
    THEN bb' = bb /\ ii' = ii + 1
    ELSE bb' = bb + 1 /\ ii' = 1

\* Every stored value is numbered anew.
StoreStepAlwaysFresh ==
  /\ Scanning
  /\ Cur.kind = "store"
  /\ LET StoredValue == Cur.op0
         Pointer == Cur.op1
         vn1 == Assign(ValueNumbers, StoredValue, nextValueNumber)
         vn2 == Assign(vn1, Pointer, vn1[StoredValue])
     IN  /\ nextValueNumber' = nextValueNumber + 1
         /\ ValueNumbers' = vn2
         /\ out' = Append(out, [I |-> Cur, lhs |-> vn2[Pointer], rhs |-> vn2[StoredValue]])
  /\ NextInstruction
  /\ UNCHANGED <<F, LVNTable>>

\* The store branch.
StoreStep ==
  /\ Scanning
  /\ Cur.kind = "store"
  /\ LET StoredValue == Cur.op0
         Pointer == Cur.op1
         fresh == ~Count(ValueNumbers, StoredValue)
         vn1 == IF fresh THEN Assign(ValueNumbers, StoredValue, nextValueNumber)
                ELSE ValueNumbers
         vn2 == Assign(vn1, Pointer, vn1[StoredValue])
     IN  /\ nextValueNumber' = IF fresh THEN nextValueNumber + 1 ELSE nextValueNumber
         /\ ValueNumbers' = vn2
         /\ out' = Append(out, [I |-> Cur, lhs |-> vn2[Pointer], rhs |-> vn2[StoredValue]])
  /\ NextInstruction
  /\ UNCHANGED <<F, LVNTable>>

\* No forwarding: every load is given a fresh number.
LoadStepNoForward ==
  /\ Scanning
  /\ Cur.kind = "load"
  /\ LET Pointer == Cur.op0
         I == Inst(Cur.id)
         vn1 == Assign(ValueNumbers, I, nextValueNumber)
         vn2 == Subscript(vn1, Pointer)
     IN  /\ nextValueNumber' = nextValueNumber + 1
         /\ ValueNumbers' = vn2
         /\ out' = Append(out, [I |-> Cur, lhs |-> vn2[I], rhs |-> vn2[Pointer]])
  /\ NextInstruction
  /\ UNCHANGED <<F, LVNTable>>

\* The load branch.
LoadStep ==
  /\ Scanning
  /\ Cur.kind = "load"
  /\ LET Pointer == Cur.op0
         I == Inst(Cur.id)
         known == Count(ValueNumbers, Pointer)
         vn1 == IF known THEN Assign(ValueNumbers, I, ValueNumbers[Pointer])
                ELSE Assign(ValueNumbers, I, nextValueNumber)
         vn2 == Subscript(vn1, Pointer)
     IN  /\ nextValueNumber' = IF known THEN nextValueNumber ELSE nextValueNumber + 1
         /\ ValueNumbers' = vn2
         /\ out' = Append(out, [I |-> Cur, lhs |-> vn2[I], rhs |-> vn2[Pointer]])
  /\ NextInstruction
  /\ UNCHANGED <<F, LVNTable>>

\* The binary operator branch.
BinOpStep ==
  /\ Scanning
  /\ Cur.kind = "binop"
  /\ LET I == Inst(Cur.id)
         vn1 == Subscript(ValueNumbers, Cur.op0)
         LHS == vn1[Cur.op0]
         vn2 == Subscript(vn1, Cur.op1)
         RHS == vn2[Cur.op1]
         Expr == Expression(Cur.opcode, LHS, RHS)
     IN  IF LVNCount(LVNTable, Expr)
           THEN /\ ValueNumbers' = Assign(vn2, I, LVNFind(LVNTable, Expr))
                /\ UNCHANGED <<LVNTable, nextValueNumber>>
                /\ out' = Append(out, [I |-> Cur, lhs |-> LVNFind(LVNTable, Expr),
                                       LHS |-> LHS, name |-> getOpcodeName(Cur.opcode),
                                       RHS |-> RHS, redundant |-> TRUE])
           ELSE /\ ValueNumbers' = Assign(vn2, I, nextValueNumber)
                /\ nextValueNumber' = nextValueNumber + 1
                /\ LVNTable' = LVNAssign(LVNTable, Expr, nextValueNumber)
                /\ out' = Append(out, [I |-> Cur, lhs |-> nextValueNumber,
                                       LHS |-> LHS, name |-> getOpcodeName(Cur.opcode),
                                       RHS |-> RHS, redundant |-> FALSE])
  /\ NextInstruction
  /\ UNCHANGED F

\* Tables scoped to the block: the terminator, the last instruction of its
\* block, leaves them empty for the next block.
OtherStepReset ==
  /\ Scanning
  /\ Cur.kind \notin {"store", "load", "binop"}
  /\ NextInstruction
  /\ LVNTable' = EmptyMap
  /\ ValueNumbers' = EmptyMap
  /\ nextValueNumber' = 1
  /\ UNCHANGED <<F, out>>

\* An instruction of any kind is given a number.
OtherStepNumbers ==
  /\ Scanning
  /\ Cur.kind \notin {"store", "load", "binop"}
  /\ NextInstruction
  /\ nextValueNumber' = nextValueNumber + 1
  /\ UNCHANGED <<F, LVNTable, ValueNumbers, out>>

\* Any other instruction: no branch is taken.
OtherStep ==
  /\ Scanning
  /\ Cur.kind \notin {"store", "load", "binop"}
  /\ NextInstruction
  /\ UNCHANGED <<F, LVNTable, ValueNumbers, nextValueNumber, out>>

Next == StoreStep \/ LoadStep \/ BinOpStep \/ OtherStep

Spec == Init /\ [][Next]_vars

\* The module: HelloWorld::run is called on one function after another, and
\* each call of visitor writes its header to errs() and constructs its
\* locals.  The functions of one module hold at most MaxInstrs instructions
\* together.
InitModule ==
  /\ SingleBlockUpTo(F, ModuleShapes, MaxInstrs)
  /\ bb = 1
  /\ ii = 1
  /\ LVNTable = EmptyMap
  /\ ValueNumbers = EmptyMap
  /\ nextValueNumber = 1
  /\ out = <<Header>>

Headers == {i \in 1..Len(out) : out[i].I.kind = "header"}

\* Locals that outlive the call (static or global tables).
KeepLocals == UNCHANGED <<LVNTable, ValueNumbers, nextValueNumber>>

\* The three locals of visitor are constructed at each call.
ConstructLocals ==
  /\ LVNTable' = EmptyMap
  /\ ValueNumbers' = EmptyMap
  /\ nextValueNumber' = 1

\* visitor returns and HelloWorld::run is called on the next function.
RunStep ==
  /\ Done
  /\ Cardinality(Headers) < MaxFunctions
  /\ SingleBlockUpTo(F', ModuleShapes, MaxInstrs - (Len(out) - Cardinality(Headers)))
  /\ bb' = 1
  /\ ii' = 1
  /\ ConstructLocals
  /\ out' = Append(out, Header)

NextModule == Next \/ RunStep

ModuleSpec == InitModule /\ [][NextModule]_vars

\* The loops run without suspension until the function is exhausted.
FairSpec == InitBlocks /\ [][Next]_vars /\ WF_vars(Next)

TypeOK ==
  /\ bb \in 1..(Len(F) + 1)
  /\ nextValueNumber \in Nat

(***************************************************************************)
(* The diagnostic records: the lines of errs() after the header.  Each     *)
(* holds the rendering of its instruction (I), so the operands and the     *)
(* position of every numbered instruction are read off the stream.         *)
(***************************************************************************)
Records == Tail(out)
RecIdx == 1..Len(Records)
IsBin(r) == r.I.kind = "binop"
IsStore(r) == r.I.kind = "store"
IsLoad(r) == r.I.kind = "load"
Last(s) == s[Len(s)]

\* C1: for op in {add, mul}, a binary instruction t = op(b,a) scanned after
\* s = op(a,b), with a and b carrying the same numbers at t as at s, gets the
\* value number of s and its record carries the redundant flag.
C1_Commutativity ==
  \A i \in RecIdx : \A j \in RecIdx :
    LET s == Records[i]
        t == Records[j]
    IN  ( /\ i < j
          /\ IsBin(s) /\ IsBin(t)
          /\ s.I.opcode \in {Add, Mul} /\ t.I.opcode = s.I.opcode
          /\ t.I.op0 = s.I.op1 /\ t.I.op1 = s.I.op0
          /\ t.LHS = s.RHS /\ t.RHS = s.LHS )
        => (t.lhs = s.lhs /\ t.redundant)

\* A swapped pair of adds or muls whose two operands are different values
\* with different numbers has been scanned.
C1_Witness ==
  \E i \in RecIdx : \E j \in RecIdx :
    LET s == Records[i]
        t == Records[j]
    IN  /\ i < j
        /\ IsBin(s) /\ IsBin(t)
        /\ s.I.opcode \in {Add, Mul} /\ t.I.opcode = s.I.opcode
        /\ t.I.op0 = s.I.op1 /\ t.I.op1 = s.I.op0
        /\ t.LHS = s.RHS /\ t.RHS = s.LHS
        /\ s.LHS # s.RHS
        /\ t.redundant

\* C2: every number in the ValueNumberTable, every key component and value
\* of the ExpressionTable and every printed number is >= 1 and
\* < nextValueNumber.
Positive(n) == n >= 1 /\ n < nextValueNumber

C2_AllNumbersPositive ==
  /\ \A v \in DOMAIN ValueNumbers : Positive(ValueNumbers[v])
  /\ \A e \in DOMAIN LVNTable : Positive(e.LHS) /\ Positive(e.RHS) /\ Positive(LVNTable[e])
  /\ \A i \in RecIdx :
       LET r == Records[i]
       IN  /\ Positive(r.lhs)
           /\ IsBin(r) => Positive(r.LHS) /\ Positive(r.RHS)
           /\ ~IsBin(r) => Positive(r.rhs)

\* C3: a binary instruction with an operand that has no value number and is
\* not a literal constant stops the scan: nothing is assigned, recorded or
\* emitted, and no later instruction is processed.
Unresolved(o) == o \notin DOMAIN ValueNumbers /\ ~IsConstant(o)

C3_AbortsOnUnresolved ==
  [][ (Scanning /\ Cur.kind = "binop" /\ (Unresolved(Cur.op0) \/ Unresolved(Cur.op1)))
        => UNCHANGED vars ]_vars

\* C4: op(a, c1) and a later op(a, c2) of the same operator kind, with a
\* already numbered and c1, c2 different literal constants, get different
\* value numbers and the second is not flagged redundant.
C4_ConstantsDistinguished ==
  \A i \in RecIdx : \A j \in RecIdx :
    LET s == Records[i]
        t == Records[j]
    IN  ( /\ i < j
          /\ IsBin(s) /\ IsBin(t)
          /\ t.I.opcode = s.I.opcode
          /\ t.I.op0 = s.I.op0 /\ s.LHS >= 1 /\ t.LHS = s.LHS
          /\ IsConstant(s.I.op1) /\ IsConstant(t.I.op1)
          /\ s.I.op1 # t.I.op1 )
        => (t.lhs # s.lhs /\ ~t.redundant)

\* The record S of a store to the location ptr at position i of the stream
\* is still the last binding of ptr at the end of the stream: no later store
\* has ptr as its pointer operand.
LastStoreTo(ptr, i) ==
  /\ IsStore(Records[i])
  /\ Records[i].I.op1 = ptr
  /\ \A k \in RecIdx : (k > i /\ IsStore(Records[k])) => Records[k].I.op1 # ptr

\* No load or binary instruction whose own result is ptr was scanned after
\* position i.
NotDefinedAfter(ptr, i) ==
  \A k \in RecIdx : (k > i /\ ~IsStore(Records[k])) => Inst(Records[k].I.id) # ptr

\* C5 as stated: a load from p scanned after a store S to p, with no store
\* to p in between, gets the number S bound to p and allocates no number.
C5_ForwardingAsStated ==
  [][ \A i \in RecIdx :
        (Scanning /\ Cur.kind = "load" /\ LastStoreTo(Cur.op0, i))
          => /\ Last(out').lhs = Records[i].lhs
             /\ nextValueNumber' = nextValueNumber ]_vars

\* C5 (amended): the same, provided that p is not the result of a load or
\* binary instruction scanned between S and the load.
C5_Forwarding ==
  [][ \A i \in RecIdx :
        (Scanning /\ Cur.kind = "load" /\ LastStoreTo(Cur.op0, i)
           /\ NotDefinedAfter(Cur.op0, i))
          => /\ Last(out').lhs = Records[i].lhs
             /\ Records[i].lhs = Records[i].rhs
             /\ nextValueNumber' = nextValueNumber ]_vars

\* A load has been forwarded a positive number from a store that is not the
\* instruction just before it.
C5_Witness ==
  \E i \in RecIdx : \E j \in RecIdx :
    /\ i + 1 < j
    /\ j = Len(Records)
    /\ IsLoad(Records[j])
    /\ IsStore(Records[i]) /\ Records[i].I.op1 = Records[j].I.op0
    /\ \A k \in (i + 1)..(j - 1) :
         /\ IsStore(Records[k]) => Records[k].I.op1 # Records[j].I.op0
         /\ ~IsStore(Records[k]) => Inst(Records[k].I.id) # Records[j].I.op0
    /\ Records[j].lhs = Records[i].lhs
    /\ Records[i].lhs >= 1

\* C6: for op in {sub, div}, op(a,b) and a later op(b,a) get different
\* value numbers when the numbers of a and b differ, and are unified (same
\* number, redundant flag) when a and b carry the same number.
C6_NonCommutativity ==
  \A i \in RecIdx : \A j \in RecIdx :
    LET s == Records[i]
        t == Records[j]
    IN  ( /\ i < j
          /\ IsBin(s) /\ IsBin(t)
          /\ s.I.opcode \in {Sub, UDiv, SDiv} /\ t.I.opcode = s.I.opcode
          /\ t.I.op0 = s.I.op1 /\ t.I.op1 = s.I.op0
          /\ t.LHS = s.RHS /\ t.RHS = s.LHS )
        => IF s.LHS # s.RHS
             THEN t.lhs # s.lhs
             ELSE t.lhs = s.lhs /\ t.redundant

\* A swapped pair of subs or divs over operands with different numbers has
\* been scanned and the second is not flagged.
C6_Witness ==
  \E i \in RecIdx : \E j \in RecIdx :
    LET s == Records[i]
        t == Records[j]
    IN  /\ i < j
        /\ IsBin(s) /\ IsBin(t)
        /\ s.I.opcode \in {Sub, UDiv, SDiv} /\ t.I.opcode = s.I.opcode
        /\ t.I.op0 = s.I.op1 /\ t.I.op1 = s.I.op0
        /\ t.LHS = s.RHS /\ t.RHS = s.LHS
        /\ s.LHS # s.RHS
        /\ ~t.redundant

\* C7: nextValueNumber starts at 1; a store of a value without an entry, a
\* load from a location without an entry and a binary instruction that is
\* not flagged allocate exactly the current nextValueNumber and advance it
\* by one; every other step leaves it unchanged.
Allocating ==
  /\ Scanning
  /\ \/ Cur.kind = "store" /\ Cur.op0 \notin DOMAIN ValueNumbers
     \/ Cur.kind = "load" /\ Cur.op0 \notin DOMAIN ValueNumbers
     \/ Cur.kind = "binop" /\ ~Last(out').redundant

Allocated ==
  IF Cur.kind = "store" THEN ValueNumbers'[Cur.op0] ELSE ValueNumbers'[Inst(Cur.id)]

C7_DenseNumbering ==
  /\ nextValueNumber = 1
  /\ [][ IF Allocating
           THEN nextValueNumber' = nextValueNumber + 1 /\ Allocated = nextValueNumber
           ELSE nextValueNumber' = nextValueNumber ]_vars

\* The scan is over, numbers 1 and 2 were allocated and one numbered
\* instruction allocated nothing.
C7_Witness == Done /\ nextValueNumber = 3 /\ Len(Records) = 3

\* C8: every occurrence of one literal constant, as the stored value of a
\* store or as an operand of a binary instruction, resolves to one number.
Occurrences(c) ==
  {Records[i].rhs : i \in {k \in RecIdx : IsStore(Records[k]) /\ Records[k].I.op0 = c}}
    \cup {Records[i].LHS : i \in {k \in RecIdx : IsBin(Records[k]) /\ Records[k].I.op0 = c}}
    \cup {Records[i].RHS : i \in {k \in RecIdx : IsBin(Records[k]) /\ Records[k].I.op1 = c}}

C8_ConstantOneNumber ==
  \A c \in {c3, c5} : Cardinality(Occurrences(c)) <= 1

\* Two stores of one constant to different locations and a binary
\* instruction with that constant as an operand have been scanned.
C8_Witness ==
  \E c \in {c3, c5} :
    /\ \E i \in RecIdx : \E j \in RecIdx :
         /\ i < j
         /\ IsStore(Records[i]) /\ Records[i].I.op0 = c
         /\ IsStore(Records[j]) /\ Records[j].I.op0 = c
         /\ Records[i].I.op1 # Records[j].I.op1
         /\ Records[i].lhs = Records[j].lhs
    /\ \E k \in RecIdx : IsBin(Records[k]) /\ c \in {Records[k].I.op0, Records[k].I.op1}

\* C9: a binary instruction is flagged redundant iff an earlier binary
\* instruction produced an equal canonical key (operator kind, ordered
\* operand numbers).  Flagged: it gets the number of the first instruction
\* with that key, counter and ExpressionTable unchanged.  Not flagged: it
\* gets the current nextValueNumber, the counter advances by one and the key
\* is recorded with that number.
CanonicalKey(r) ==
  IF r.I.opcode \in {Add, Mul} /\ r.LHS > r.RHS
    THEN [Opcode |-> r.I.opcode, LHS |-> r.RHS, RHS |-> r.LHS]
    ELSE [Opcode |-> r.I.opcode, LHS |-> r.LHS, RHS |-> r.RHS]

Earlier(j) == {i \in RecIdx : i < j /\ IsBin(Records[i])
                                /\ CanonicalKey(Records[i]) = CanonicalKey(Records[j])}

Min(S) == CHOOSE m \in S : \A n \in S : m <= n

C9_RedundantIffSeen ==
  \A j \in RecIdx :
    IsBin(Records[j]) =>
      /\ Records[j].redundant <=> Earlier(j) # {}
      /\ Records[j].redundant => Records[j].lhs = Records[Min(Earlier(j))].lhs

C9_BinaryStep ==
  (Scanning /\ Cur.kind = "binop") =>
    LET r == Last(out')
    IN  IF r.redundant
          THEN nextValueNumber' = nextValueNumber /\ LVNTable' = LVNTable
          ELSE /\ r.lhs = nextValueNumber
               /\ nextValueNumber' = nextValueNumber + 1
               /\ CanonicalKey(r) \notin DOMAIN LVNTable
               /\ DOMAIN LVNTable' = DOMAIN LVNTable \cup {CanonicalKey(r)}
               /\ LVNTable'[CanonicalKey(r)] = r.lhs
               /\ \A e \in DOMAIN LVNTable : LVNTable'[e] = LVNTable[e]

C9_Redundancy == []C9_RedundantIffSeen /\ [][C9_BinaryStep]_vars

\* A flagged binary instruction follows an unflagged one with another key.
C9_Witness ==
  \E i \in RecIdx : \E j \in RecIdx :
    /\ IsBin(Records[i]) /\ IsBin(Records[j])
    /\ Records[j].redundant /\ ~Records[i].redundant
    /\ CanonicalKey(Records[i]) # CanonicalKey(Records[j])

\* C10: the scan visits the instructions one by one in block order then
\* intra-block order and terminates; the stream then holds one record per
\* store, load and binary instruction, in program order, and nothing else;
\* emitted records are never changed or removed.
RECURSIVE Flat(_)
Flat(fn) == IF fn = <<>> THEN <<>> ELSE Head(fn) \o Flat(Tail(fn))

IsNumbered(I) == I.kind \in {"store", "load", "binop"}

RECURSIVE Before(_, _)
Before(fn, b) == IF b <= 1 THEN 0 ELSE Len(fn[b - 1]) + Before(fn, b - 1)

Position == Before(F, bb) + ii

C10_ScanAndStream ==
  /\ <>Done
  /\ [](Done => [i \in RecIdx |-> Records[i].I] = SelectSeq(Flat(F), IsNumbered))
  /\ [][ /\ Position' = Position + 1
         /\ Len(out') >= Len(out)
         /\ SubSeq(out', 1, Len(out)) = out ]_vars

\* A function of three blocks with three numbered instructions is scanned.
C10_Witness ==
  /\ Done
  /\ Len(F) = 3
  /\ Len(Records) = 3
  /\ \E b \in 1..Len(F) : Len(F[b]) = 1

\* C11: redundancy is decided on the raw operator kind.  Two binary
\* instructions with the same operand numbers are unified when their raw
\* kinds are equal, whatever the mnemonic, and are not unified when their raw
\* kinds differ, even when both print the same mnemonic.
C11_RawOpcodeDecides ==
  \A i \in RecIdx : \A j \in RecIdx :
    LET s == Records[i]
        t == Records[j]
    IN  ( /\ i < j
          /\ IsBin(s) /\ IsBin(t)
          /\ t.LHS = s.LHS /\ t.RHS = s.RHS )
        => IF t.I.opcode = s.I.opcode
             THEN t.lhs = s.lhs /\ t.redundant
             ELSE t.lhs # s.lhs

\* Two instructions of one unknown kind are unified, and a third of another
\* kind that prints the same mnemonic is not unified with them.
C11_Witness ==
  \E i \in RecIdx : \E j \in RecIdx : \E k \in RecIdx :
    LET s == Records[i]
        t == Records[j]
        u == Records[k]
    IN  /\ i < j /\ j < k
        /\ IsBin(s) /\ IsBin(t) /\ IsBin(u)
        /\ s.name = "unknown" /\ t.I.opcode = s.I.opcode
        /\ t.LHS = s.LHS /\ t.RHS = s.RHS /\ t.redundant /\ t.lhs = s.lhs
        /\ u.name = s.name /\ u.I.opcode # s.I.opcode
        /\ u.LHS = s.LHS /\ u.RHS = s.RHS /\ ~u.redundant /\ u.lhs # s.lhs

\* C12 as stated: the entry of an identity that has one changes only when
\* the identity is the pointer operand of the store being scanned.  A store
\* to p sets p's entry to the stored value's number and leaves every other
\* entry and the ExpressionTable unchanged; load and binary steps change no
\* existing entry.
C12_FrameAsStated ==
  [][ Scanning =>
        IF Cur.kind = "store"
          THEN /\ ValueNumbers'[Cur.op1] = ValueNumbers'[Cur.op0]
               /\ \A v \in DOMAIN ValueNumbers :
                    v # Cur.op1 => ValueNumbers'[v] = ValueNumbers[v]
               /\ LVNTable' = LVNTable
          ELSE \A v \in DOMAIN ValueNumbers : ValueNumbers'[v] = ValueNumbers[v] ]_vars

\* C12 (amended): the same, except that a load or binary step may change the
\* entry of its own result identity.
C12_Frame ==
  [][ Scanning =>
        IF Cur.kind = "store"
          THEN /\ ValueNumbers'[Cur.op1] = ValueNumbers'[Cur.op0]
               /\ \A v \in DOMAIN ValueNumbers :
                    v # Cur.op1 => ValueNumbers'[v] = ValueNumbers[v]
               /\ LVNTable' = LVNTable
          ELSE \A v \in DOMAIN ValueNumbers :
                 v # Inst(Cur.id) => ValueNumbers'[v] = ValueNumbers[v] ]_vars

\* A second store to a location has overwritten its binding with another
\* number while the first stored value keeps its own.
C12_Witness ==
  \E i \in RecIdx : \E j \in RecIdx :
    /\ i < j /\ j = Len(Records)
    /\ IsStore(Records[i]) /\ IsStore(Records[j])
    /\ Records[i].I.op1 = Records[j].I.op1
    /\ Records[i].lhs # Records[j].lhs
    /\ ValueNumbers[Records[j].I.op1] = Records[j].lhs
    /\ ValueNumbers[Records[i].I.op0] = Records[i].rhs

\* The records written for the function whose header is line h of errs().
SegEnd(h) ==
  IF \E n \in Headers : n > h
    THEN (CHOOSE n \in Headers : n > h /\ \A o \in Headers : o > h => n <= o) - 1
    ELSE Len(out)

Segment(h) == SubSeq(out, h + 1, SegEnd(h))

\* C13: nothing persists across functions.  Each call starts with empty
\* tables and nextValueNumber = 1, and the records of a function do not
\* depend on the functions analysed before it: two runs over the same
\* instructions, one later than the other, write the same records.
C13_SameRecords ==
  \A h1 \in Headers : \A h2 \in Headers :
    h1 < h2 =>
      \A k \in 1..Len(Segment(h2)) :
        ( /\ k <= Len(Segment(h1))
          /\ \A n \in 1..k : Segment(h1)[n].I = Segment(h2)[n].I )
        => Segment(h1)[k] = Segment(h2)[k]

C13_FreshStart ==
  Cardinality(Headers') > Cardinality(Headers) =>
    /\ LVNTable' = EmptyMap
    /\ ValueNumbers' = EmptyMap
    /\ nextValueNumber' = 1

C13_NoStateAcrossFunctions == []C13_SameRecords /\ [][C13_FreshStart]_vars

\* Three functions have been analysed; the first and the third hold the same
\* instruction, the second another one, and all three wrote a record.
C13_Witness ==
  /\ Done
  /\ Cardinality(Headers) = 3
  /\ \E h1 \in Headers : \E h2 \in Headers : \E h3 \in Headers :
       /\ h1 < h2 /\ h2 < h3
       /\ Len(Segment(h1)) = 1 /\ Len(Segment(h2)) = 1 /\ Len(Segment(h3)) = 1
       /\ Segment(h1)[1].I = Segment(h3)[1].I
       /\ Segment(h1)[1].I # Segment(h2)[1].I
       /\ Segment(h1)[1] = Segment(h3)[1]

\* The basic block of the instruction with the given identity.
BlockOf(id) == CHOOSE b \in 1..Len(F) : \E i \in 1..Len(F[b]) : F[b][i].id = id

NoStoreBetween(ptr, i, j) ==
  \A k \in RecIdx : (i < k /\ k < j /\ IsStore(Records[k])) => Records[k].I.op1 # ptr

NotDefinedBetween(ptr, i, j) ==
  \A k \in RecIdx : (i < k /\ k < j /\ ~IsStore(Records[k])) => Inst(Records[k].I.id) # ptr

CrossBlockBinary(i, j) ==
  /\ i < j
  /\ IsBin(Records[i]) /\ IsBin(Records[j])
  /\ BlockOf(Records[i].I.id) < BlockOf(Records[j].I.id)
  /\ CanonicalKey(Records[i]) = CanonicalKey(Records[j])

CrossBlockLoad(i, j) ==
  /\ i < j
  /\ IsStore(Records[i]) /\ IsLoad(Records[j])
  /\ BlockOf(Records[i].I.id) < BlockOf(Records[j].I.id)
  /\ Records[j].I.op0 = Records[i].I.op1
  /\ NoStoreBetween(Records[i].I.op1, i, j)

\* C14 as stated: the tables live across the blocks.  A binary instruction
\* whose key equals that of a binary instruction of an earlier block is
\* flagged and reuses its number; a load from a location stored to in an
\* earlier block, with no store to it in between, gets the stored number.
C14_AcrossBlocksAsStated ==
  \A i \in RecIdx : \A j \in RecIdx :
    /\ CrossBlockBinary(i, j) =>
         (Records[j].redundant /\ Records[j].lhs = Records[i].lhs)
    /\ CrossBlockLoad(i, j) => Records[j].lhs = Records[i].lhs

\* C14 (amended): the same, the load part provided that the location is not
\* the result of a load or binary instruction scanned between the store and
\* the load.
C14_AcrossBlocks ==
  \A i \in RecIdx : \A j \in RecIdx :
    /\ CrossBlockBinary(i, j) =>
         (Records[j].redundant /\ Records[j].lhs = Records[i].lhs)
    /\ (CrossBlockLoad(i, j) /\ NotDefinedBetween(Records[i].I.op1, i, j))
         => Records[j].lhs = Records[i].lhs

\* A function with a binary instruction where a load of a later block got
\* the number stored to its location in an earlier block.
C14_Witness ==
  /\ \E i \in RecIdx : \E j \in RecIdx :
       /\ CrossBlockLoad(i, j)
       /\ NotDefinedBetween(Records[i].I.op1, i, j)
       /\ Records[j].lhs = Records[i].lhs
       /\ Records[j].lhs >= 1
  /\ \E b \in 1..Len(F) : \E i \in 1..Len(F[b]) : F[b][i].kind = "binop"

Numbered(I) == I.kind \in {"store", "load", "binop"}

NoNumberedInstruction ==
  \A b \in 1..Len(F) : \A i \in 1..Len(F[b]) : ~Numbered(F[b][i])

\* The step over an instruction that is neither store, load nor binary
\* arithmetic changes no table, not the counter and not the stream.
C15_OtherFrame ==
  (Scanning /\ ~Numbered(Cur)) =>
    UNCHANGED <<ValueNumbers, LVNTable, nextValueNumber, out>>

\* C15 as stated: an instruction of another kind leaves the tables, the
\* counter and the stream unchanged, and a function with no store, load or
\* binary instruction ends with nothing on the stream, empty tables and
\* the counter at 1.
C15_SkippedAsStated ==
  /\ [][C15_OtherFrame]_vars
  /\ [](Done /\ NoNumberedInstruction =>
          /\ out = <<>>
          /\ LVNTable = EmptyMap
          /\ ValueNumbers = EmptyMap
          /\ nextValueNumber = 1)

\* C15 (amended): the same, the stream of such a function holding the line
\* that names the function and no record.
C15_Skipped ==
  /\ [][C15_OtherFrame]_vars
  /\ [](Done /\ NoNumberedInstruction =>
          /\ out = <<Header>>
          /\ Records = <<>>
          /\ LVNTable = EmptyMap
          /\ ValueNumbers = EmptyMap
          /\ nextValueNumber = 1)

\* The scan of a function of several blocks, each only a terminator, is over.
C15_Witness == Done /\ Len(F) >= 2 /\ NoNumberedInstruction

\* The step over a load: the record it writes and the number it gives.
C16_LoadStep ==
  (Scanning /\ Cur.kind = "load") =>
    LET Pointer == Cur.op0
        I == Inst(Cur.id)
        r == Last(out')
    IN  /\ Len(out') = Len(out) + 1
        /\ r.I = Cur
        /\ I \in DOMAIN ValueNumbers'
        /\ Pointer \in DOMAIN ValueNumbers'
        /\ r.lhs = ValueNumbers'[I]
        /\ r.rhs = ValueNumbers'[Pointer]
        /\ IF Pointer \in DOMAIN ValueNumbers
             THEN /\ ValueNumbers'[I] = ValueNumbers[Pointer]
                  /\ nextValueNumber' = nextValueNumber
             ELSE /\ ValueNumbers'[I] = nextValueNumber
                  /\ nextValueNumber' = nextValueNumber + 1

\* C16: a load from a location without an entry in ValueNumbers gets the
\* current nextValueNumber and advances the counter by one; a load from a
\* location with an entry gets the number of that entry and leaves the
\* counter alone; either way the record reads load's number = location's
\* number.
C16_Load == [][C16_LoadStep]_vars

\* A load of a location never seen, a store to the location, and a load
\* that gets the stored number: two numbers were given out.
C16_Witness ==
  /\ Len(Records) = 3
  /\ IsLoad(Records[1]) /\ IsStore(Records[2]) /\ IsLoad(Records[3])
  /\ Records[1].I.op0 = Records[2].I.op1
  /\ Records[3].I.op0 = Records[2].I.op1
  /\ Records[1].lhs = 1
  /\ Records[3].lhs = Records[2].lhs
  /\ Records[3].rhs = Records[3].lhs
  /\ nextValueNumber = 3

\* The step over a store: the numbers it gives and the record it writes.
C17_StoreStep ==
  (Scanning /\ Cur.kind = "store") =>
    LET StoredValue == Cur.op0
        Pointer == Cur.op1
        r == Last(out')
    IN  /\ Len(out') = Len(out) + 1
        /\ r.I = Cur
        /\ StoredValue \in DOMAIN ValueNumbers'
        /\ Pointer \in DOMAIN ValueNumbers'
        /\ IF StoredValue \in DOMAIN ValueNumbers
             THEN /\ ValueNumbers'[StoredValue] = ValueNumbers[StoredValue]
                  /\ nextValueNumber' = nextValueNumber
             ELSE /\ ValueNumbers'[StoredValue] = nextValueNumber
                  /\ nextValueNumber' = nextValueNumber + 1
        /\ ValueNumbers'[Pointer] = ValueNumbers'[StoredValue]
        /\ r.lhs = ValueNumbers'[Pointer]
        /\ r.rhs = ValueNumbers'[StoredValue]
        /\ r.lhs = r.rhs

\* C17: a store of v to a location numbers v with the current
\* nextValueNumber only if v has no entry (otherwise the counter stays),
\* binds the location to the number of v, and writes a record whose two
\* sides are that number; after the step the entries of the location and
\* of v are equal.
C17_Store == [][C17_StoreStep]_vars

\* The same value stored to two locations: the first store numbered it, the
\* second reused the number, and both locations hold it.
C17_Witness ==
  /\ Len(Records) = 2
  /\ IsStore(Records[1]) /\ IsStore(Records[2])
  /\ Records[1].I.op0 = Records[2].I.op0
  /\ Records[1].I.op1 # Records[2].I.op1
  /\ Records[1].lhs = 1 /\ Records[2].lhs = 1 /\ Records[2].rhs = 1
  /\ ValueNumbers[Records[1].I.op1] = ValueNumbers[Records[2].I.op1]
  /\ nextValueNumber = 2

\* The step over a load or a binary instruction touches the entry of the
\* instruction's own result and no other.
C18_OwnResultStep ==
  (Scanning /\ Cur.kind \in {"load", "binop"}) =>
    \A k \in (DOMAIN ValueNumbers \cup DOMAIN ValueNumbers') \ {Inst(Cur.id)} :
      /\ k \in DOMAIN ValueNumbers
      /\ k \in DOMAIN ValueNumbers'
      /\ ValueNumbers'[k] = ValueNumbers[k]

\* C18: scanning a load or a binary instruction adds or changes an entry of
\* ValueNumbers only for the instruction's own result: the other identities
\* with an entry, and their numbers, are the same before and after, so a
\* location loaded from but never stored to stays without an entry and an
\* operand read gets none.
C18_OwnResultOnly == [][C18_OwnResultStep]_vars

\* The keys of an add or a mul hold the smaller operand number first, no
\* two keys share a number, and every number is one already given out.
C19_Canonical ==
  \A e \in DOMAIN LVNTable :
    /\ (e.Opcode \in {Add, Mul}) => e.LHS <= e.RHS
    /\ LVNTable[e] < nextValueNumber
    /\ \A o \in DOMAIN LVNTable : o # e => LVNTable[o] # LVNTable[e]

\* An entry of the ExpressionTable stays as it was recorded.
C19_Kept ==
  \A e \in DOMAIN LVNTable :
    e \in DOMAIN LVNTable' /\ LVNTable'[e] = LVNTable[e]

\* C19: in every reachable state the ExpressionTable is canonical and
\* injective: an add or mul key has its first operand number <= its second,
\* no two keys map to the same number, every number in it is below
\* nextValueNumber, and an entry once recorded is never overwritten or
\* removed.
C19_ExpressionTable == []C19_Canonical /\ [][C19_Kept]_vars

\* Two entries, one of them recorded by an add whose operand numbers came
\* in decreasing order.
C19_Witness ==
  /\ Cardinality(DOMAIN LVNTable) >= 2
  /\ \E i \in RecIdx :
       /\ IsBin(Records[i])
       /\ Records[i].I.opcode = Add
       /\ ~Records[i].redundant
       /\ Records[i].LHS > Records[i].RHS
       /\ Expression(Add, Records[i].LHS, Records[i].RHS) \in DOMAIN LVNTable
       /\ LVNTable[Expression(Add, Records[i].LHS, Records[i].RHS)] = Records[i].lhs

====
